---- MODULE Spec2Model ----
(***************************************************************************)
(* Model of chopsticks_functions.py: the Chopstick move generator, the     *)
(* terminal evaluator, the depth-bounded minimax with its module-level     *)
(* score dictionary, and find_best_state.                                  *)
(*                                                                         *)
(* A Python string is a sequence of one-character strings, so the state   *)
(* "11|11" is <<"1","1","|","1","1">> and the hand "02" is <<"0","2">>.    *)
(* Python lists are sequences too (index i of the code is index i+1).      *)
(***************************************************************************)
EXTENDS Integers, Sequences, FiniteSets, TLC

VARIABLES
    possible_state_dict,  \* the module-level dictionary {0: {...}, 1: {...}}
    max_depth,            \* Chopstick.max_depth
    hashseed,             \* the interpreter's string-hash seed: fixes the iteration order of sets
    state,                \* local `state` of spectate_AI / play_AI
    player,               \* local `player` of spectate_AI / play_AI
    turns,                \* local `turns` of spectate_AI / play_AI
    player_choice,        \* parameter of play_AI (2: spectate_AI, no human)
    ret,                  \* the last call of the API: its name, arguments and outcome
    calls                 \* the find_best_state results since the dictionary was empty

vars == <<possible_state_dict, max_depth, hashseed, state, player, turns,
          player_choice, ret, calls>>

----------------------------------------------------------------------------
(* Bounds of the model *)

\* greatest max_depth of the search specification
MaxDepth == 3
\* number of find_best_state / minimax calls made on one position
MaxCalls == 2
\* number of moves played from "11|11" before the searches
MaxPly == 3
\* number of plies played by play_AI / spectate_AI in the play specification
MaxTurns == 6
\* a max_depth large enough for the search to resolve the starting position
SolveDepth == 10

\* string-hash seeds: multipliers of the order in which a set is iterated
HashSeeds == {1, 630}
HashModulus == 631

----------------------------------------------------------------------------
(* Strings and digits *)

Digits == <<"0", "1", "2", "3", "4", "5", "6", "7", "8", "9">>

DigitValue == [ch \in {Digits[i] : i \in 1..10} |->
                 (CHOOSE i \in 1..10 : Digits[i] = ch) - 1]

\* str(n) for a one-digit n
str(n) == Digits[n + 1]

\* int(ch) for a digit character
int(ch) == DigitValue[ch]

abs(x) == IF x < 0 THEN 0 - x ELSE x

max(a, b) == IF a >= b THEN a ELSE b

min(a, b) == IF a <= b THEN a ELSE b

\* state.split("|")
split(s) ==
    IF \E j \in 1..Len(s) : s[j] = "|"
    THEN LET i == CHOOSE j \in 1..Len(s) : s[j] = "|" /\ \A k \in 1..(j - 1) : s[k] # "|"
         IN  <<SubSeq(s, 1, i - 1), SubSeq(s, i + 1, Len(s))>>
    ELSE <<s>>

\* "|".join(states)
join(states) == states[1] \o <<"|">> \o states[2]

\* standardize_format without its sorted(result)
standardize_format_unsorted(result) ==
    <<str(result[1]), str(result[2])>>

\* standardize_format applied to a list or tuple of two ints (lines 63, 84, 92):
\* sorted(result), then "".join(map(str, result))
standardize_format(result) ==
    LET r == IF result[1] <= result[2] THEN <<result[1], result[2]>>
             ELSE <<result[2], result[1]>>
    IN  <<str(r[1]), str(r[2])>>

\* standardize_format leaving a string as it is
standardize_format_str_kept(result) == result

\* standardize_format applied to a two-character string (line 109): sorted
\* orders the characters by their code, str leaves a character as it is
standardize_format_str(result) ==
    IF int(result[1]) <= int(result[2]) THEN <<result[1], result[2]>>
    ELSE <<result[2], result[1]>>

----------------------------------------------------------------------------
(* Iteration order of a set of states: list(hits), list(splits) *)

\* the digits of a state read as a number in base 5
NumOf(s) ==
    LET states == split(s)
    IN  125 * int(states[1][1]) + 25 * int(states[1][2])
          + 5 * int(states[2][1]) + int(states[2][2])

HashKey(s, seed) == (NumOf(s) * seed) % HashModulus

\* list(S) when the interpreter's hash seed is `seed`
RECURSIVE list(_, _)
list(S, seed) ==
    IF S = {} THEN <<>>
    ELSE LET x == CHOOSE y \in S : \A z \in S : HashKey(y, seed) <= HashKey(z, seed)
         IN  <<x>> \o list(S \ {x}, seed)

Range(f) == {f[i] : i \in DOMAIN f}

----------------------------------------------------------------------------
\* hit with the comparison new_hand > 5
hit_over5(player_hand, opponent_hand) ==
    LET new_hand == player_hand + opponent_hand
    IN  IF new_hand > 5 THEN 0 ELSE new_hand

(* Chopstick.hit *)

hit(player_hand, opponent_hand) ==
    LET new_hand == player_hand + opponent_hand
    IN  IF new_hand >= 5 THEN 0 ELSE new_hand

\* evaluate with the two return values exchanged
evaluate_mirrored(s) ==
    LET states == split(s)
    IN  IF states[1] = <<"0", "0">> THEN 100
        ELSE IF states[2] = <<"0", "0">> THEN -100
        ELSE 0

(* Chopstick.evaluate *)

evaluate(s) ==
    LET states == split(s)
    IN  IF states[1] = <<"0", "0">> THEN -100
        ELSE IF states[2] = <<"0", "0">> THEN 100
        ELSE 0

\* possible_hits whose new hand is assigned to both entries of new_state
hits_added_both(s, p) ==
    LET states         == split(s)
        opponent       == 1 - p
        player_hand    == states[p + 1]
        opponent_hand  == states[opponent + 1]
        player_left    == int(player_hand[1])
        player_right   == int(player_hand[2])
        opponent_left  == int(opponent_hand[1])
        opponent_right == int(opponent_hand[2])
        possible_moves == << <<player_left, opponent_left, 0>>,
                             <<player_left, opponent_right, 1>>,
                             <<player_right, opponent_left, 0>>,
                             <<player_right, opponent_right, 1>> >>
        new_state(m) ==
            LET hit_result        == hit(m[1], m[2])
                opponent_new_hand ==
                    standardize_format(
                        [ <<opponent_left, opponent_right>> EXCEPT ![m[3] + 1] = hit_result ])
            IN  join(<<opponent_new_hand, opponent_new_hand>>)
        legal == SelectSeq(possible_moves, LAMBDA m : m[1] # 0 /\ m[2] # 0)
    IN  [i \in 1..Len(legal) |-> new_state(legal[i])]

\* possible_hits trying the first of its possible_moves only
hits_added_first(s, p) ==
    LET states         == split(s)
        opponent       == 1 - p
        player_hand    == states[p + 1]
        opponent_hand  == states[opponent + 1]
        player_left    == int(player_hand[1])
        opponent_left  == int(opponent_hand[1])
        opponent_right == int(opponent_hand[2])
        possible_moves == << <<player_left, opponent_left, 0>> >>
        new_state(m) ==
            LET hit_result        == hit(m[1], m[2])
                opponent_new_hand ==
                    standardize_format(
                        [ <<opponent_left, opponent_right>> EXCEPT ![m[3] + 1] = hit_result ])
            IN  join([states EXCEPT ![opponent + 1] = opponent_new_hand])
        legal == SelectSeq(possible_moves, LAMBDA m : m[1] # 0 /\ m[2] # 0)
    IN  [i \in 1..Len(legal) |-> new_state(legal[i])]

\* possible_hits without the test that both finger counts are non-zero
hits_added_any(s, p) ==
    LET states         == split(s)
        opponent       == 1 - p
        player_hand    == states[p + 1]
        opponent_hand  == states[opponent + 1]
        player_left    == int(player_hand[1])
        player_right   == int(player_hand[2])
        opponent_left  == int(opponent_hand[1])
        opponent_right == int(opponent_hand[2])
        possible_moves == << <<player_left, opponent_left, 0>>,
                             <<player_left, opponent_right, 1>>,
                             <<player_right, opponent_left, 0>>,
                             <<player_right, opponent_right, 1>> >>
        new_state(m) ==
            LET hit_result        == hit(m[1], m[2])
                opponent_new_hand ==
                    standardize_format(
                        [ <<opponent_left, opponent_right>> EXCEPT ![m[3] + 1] = hit_result ])
            IN  join([states EXCEPT ![opponent + 1] = opponent_new_hand])
    IN  [i \in 1..Len(possible_moves) |-> new_state(possible_moves[i])]

\* possible_hits writing the new hand over the acting player's hand
hits_added_own(s, p) ==
    LET states         == split(s)
        opponent       == 1 - p
        player_hand    == states[p + 1]
        opponent_hand  == states[opponent + 1]
        player_left    == int(player_hand[1])
        player_right   == int(player_hand[2])
        opponent_left  == int(opponent_hand[1])
        opponent_right == int(opponent_hand[2])
        possible_moves == << <<player_left, opponent_left, 0>>,
                             <<player_left, opponent_right, 1>>,
                             <<player_right, opponent_left, 0>>,
                             <<player_right, opponent_right, 1>> >>
        new_state(m) ==
            LET hit_result        == hit(m[1], m[2])
                opponent_new_hand ==
                    standardize_format(
                        [ <<opponent_left, opponent_right>> EXCEPT ![m[3] + 1] = hit_result ])
            IN  join([states EXCEPT ![p + 1] = opponent_new_hand])
        legal == SelectSeq(possible_moves, LAMBDA m : m[1] # 0 /\ m[2] # 0)
    IN  [i \in 1..Len(legal) |-> new_state(legal[i])]

(* Chopstick.possible_hits *)

\* the states added to `hits`, in the order of possible_moves
hits_added(s, p) ==
    LET states         == split(s)
        opponent       == 1 - p
        player_hand    == states[p + 1]
        opponent_hand  == states[opponent + 1]
        player_left    == int(player_hand[1])
        player_right   == int(player_hand[2])
        opponent_left  == int(opponent_hand[1])
        opponent_right == int(opponent_hand[2])
        possible_moves == << <<player_left, opponent_left, 0>>,
                             <<player_left, opponent_right, 1>>,
                             <<player_right, opponent_left, 0>>,
                             <<player_right, opponent_right, 1>> >>
        new_state(m) ==
            LET hit_result        == hit(m[1], m[2])
                opponent_new_hand ==
                    standardize_format(
                        [ <<opponent_left, opponent_right>> EXCEPT ![m[3] + 1] = hit_result ])
            IN  join([states EXCEPT ![opponent + 1] = opponent_new_hand])
        legal == SelectSeq(possible_moves, LAMBDA m : m[1] # 0 /\ m[2] # 0)
    IN  [i \in 1..Len(legal) |-> new_state(legal[i])]

\* possible_hits collecting its results in a list instead of a set
possible_hits_list(s, p, seed) == hits_added(s, p)

\* possible_hits when the interpreter's hash seed is `seed`
possible_hits_under(s, p, seed) == list(Range(hits_added(s, p)), seed)

possible_hits(s, p) == possible_hits_under(s, p, hashseed)

(* Chopstick.possible_splits *)

\* possible_splits with the legality test < 4 instead of <= 4
splits_added_strict(s, p) ==
    LET states == split(s)
        hand   == states[p + 1]
        left   == int(hand[1])
        right  == int(hand[2])
        new_state(split_result) ==
            join([states EXCEPT ![p + 1] = standardize_format(split_result)])
        first  == [finger \in 1..left |-> <<left - finger, right + finger>>]
        second == [finger \in 1..right |-> <<left + finger, right - finger>>]
        legal  == SelectSeq(first \o second, LAMBDA r : r[1] < 4 /\ r[2] < 4)
    IN  [i \in 1..Len(legal) |-> new_state(legal[i])]

\* the states added to `splits` by the two loops, in order
splits_added(s, p) ==
    LET states == split(s)
        hand   == states[p + 1]
        left   == int(hand[1])
        right  == int(hand[2])
        new_state(split_result) ==
            join([states EXCEPT ![p + 1] = standardize_format(split_result)])
        first  == [finger \in 1..left |-> <<left - finger, right + finger>>]
        second == [finger \in 1..right |-> <<left + finger, right - finger>>]
        legal  == SelectSeq(first \o second, LAMBDA r : r[1] <= 4 /\ r[2] <= 4)
    IN  [i \in 1..Len(legal) |-> new_state(legal[i])]

\* possible_splits when the interpreter's hash seed is `seed`
possible_splits_under(s, p, seed) == list(Range(splits_added(s, p)) \ {s}, seed)

possible_splits(s, p) == possible_splits_under(s, p, hashseed)

\* get_available_states refusing only the states player 1 has won
get_available_states_lost(s0, p, seed) ==
    LET states0 == split(s0)
        states  == <<standardize_format_str(states0[1]), standardize_format_str(states0[2])>>
        s       == join(states)
    IN  IF evaluate(s) < 0
        THEN [raised |-> TRUE, value |-> <<>>]
        ELSE [raised |-> FALSE,
              value  |-> possible_hits_under(s, p, seed) \o possible_splits_under(s, p, seed)]

(* Chopstick.get_available_states: raised is TRUE when the ValueError is raised *)

\* get_available_states when the interpreter's hash seed is `seed`
get_available_states_under(s0, p, seed) ==
    LET states0 == split(s0)
        states  == <<standardize_format_str(states0[1]), standardize_format_str(states0[2])>>
        s       == join(states)
    IN  IF evaluate(s) # 0
        THEN [raised |-> TRUE, value |-> <<>>]
        ELSE [raised |-> FALSE,
              value  |-> possible_hits_under(s, p, seed) \o possible_splits_under(s, p, seed)]

\* every string of two hands of digits 0..4 around one separator
Fingers == 0..4

Positions ==
    {<<str(a), str(b), "|", str(c), str(d)>> : a \in Fingers, b \in Fingers,
                                               c \in Fingers, d \in Fingers}

\* get_available_states tabulated: the function has no state of its own
available_states ==
    [seed \in HashSeeds |->
        [s0 \in Positions |->
            [p \in {0, 1} |-> get_available_states_under(s0, p, seed)]]]

get_available_states(s0, p) ==
    IF s0 \in Positions THEN available_states[hashseed][s0][p]
    ELSE get_available_states_under(s0, p, hashseed)

----------------------------------------------------------------------------
(* Chopstick.minimax: the score, the dictionary as the call leaves it,    *)
(* whether the call ended by the ValueError of get_available_states, and   *)
(* what the call did: `nested` holds <<depth, depth of the callee>> for    *)
(* every recursive call below it, `generated` counts the calls of          *)
(* get_available_states, `log` lists the iterations of its own for loop.   *)

\* minimax without lines 149-152
decay_none(score) == score

\* the score of a recursive call moved two towards 0
decay_twice(score) ==
    IF score > 1 THEN score - 2
    ELSE IF score < -1 THEN score + 2
    ELSE 0

\* the score of a recursive call decremented whatever its sign
decay_down(score) == score - 1

\* lines 149-152: the score of a recursive call is moved one towards 0
decay(score) ==
    IF score > 0 THEN score - 1
    ELSE IF score < 0 THEN score + 1
    ELSE score

\* the reuse test without its abs(...) > 50
cached_any(dict, p, possible_state) ==
    possible_state \in DOMAIN dict[p]

\* possible_state in possible_state_dict[player] and abs(...) > 50
cached(dict, p, possible_state) ==
    /\ possible_state \in DOMAIN dict[p]
    /\ abs(dict[p][possible_state]) > 50

\* the score stored in one dictionary for both players
store_shared(dict, p, possible_state, score) ==
    [q \in {0, 1} |-> (possible_state :> score) @@ dict[q]]

\* the score stored in the mapping of the other player
store_other(dict, p, possible_state, score) ==
    [dict EXCEPT ![1 - p] = (possible_state :> score) @@ dict[1 - p]]

\* possible_state_dict[player][possible_state] = score
store(dict, p, possible_state, score) ==
    [dict EXCEPT ![p] = (possible_state :> score) @@ dict[p]]

\* the horizon test one level late
horizon_late(depth) == depth > max_depth + 1

\* line 137: depth > self.max_depth
horizon(depth) == depth > max_depth

\* minimax without its terminal cutoff
terminal_never(score) == FALSE

\* line 134: score != 0
terminal(score) == score # 0

\* a call that returns before line 140
Leaf(score, dict) ==
    [value |-> score, dict |-> dict, raised |-> FALSE,
     nested |-> {}, generated |-> 0, log |-> <<>>]

\* the value of dict[p][possible_state] as a list: empty when the key is absent
Lookup(dict, p, possible_state) ==
    IF possible_state \in DOMAIN dict[p] THEN <<dict[p][possible_state]>> ELSE <<>>

RECURSIVE minimax(_, _, _, _), minimax_loop(_, _, _, _, _, _, _)

minimax(s, depth, p, dict) ==
    LET score == evaluate(s)
    IN  IF terminal(score) THEN Leaf(score, dict)
        ELSE IF horizon(depth) THEN Leaf(score, dict)
        ELSE LET possible_states == get_available_states(s, p)
             IN  IF possible_states.raised
                 THEN [value |-> 0, dict |-> dict, raised |-> TRUE,
                       nested |-> {}, generated |-> 1, log |-> <<>>]
                 ELSE minimax_loop(possible_states.value, 1,
                                   IF p = 0 THEN -1000 ELSE 1000, depth, p, dict,
                                   [nested |-> {}, generated |-> 1, log |-> <<>>])

\* the for loop of minimax from its i-th possible state on; done is what the
\* call did so far
minimax_loop(possible_states, i, best, depth, p, dict, done) ==
    IF i > Len(possible_states)
    THEN [value |-> best, dict |-> dict, raised |-> FALSE,
          nested |-> done.nested, generated |-> done.generated, log |-> done.log]
    ELSE LET possible_state == possible_states[i]
             reuse == cached(dict, p, possible_state)
             rec   == IF reuse
                      THEN Leaf(dict[p][possible_state], dict)
                      ELSE minimax(possible_state, depth + 1, 1 - p, dict)
             score == IF reuse THEN rec.value ELSE decay(rec.value)
             after == store(rec.dict, p, possible_state, score)
             entry == [state    |-> possible_state,
                       prior    |-> Lookup(dict, p, possible_state),
                       recursed |-> ~reuse,
                       result   |-> IF reuse THEN <<>> ELSE <<rec.value>>,
                       score    |-> score,
                       stored   |-> Lookup(after, p, possible_state),
                       other    |-> after[1 - p] = rec.dict[1 - p]]
             did   == [nested    |-> IF reuse THEN done.nested
                                     ELSE done.nested \cup rec.nested
                                            \cup {<<depth, depth + 1>>},
                       generated |-> done.generated + rec.generated,
                       log       |-> Append(done.log, entry)]
         IN  IF rec.raised
             THEN [rec EXCEPT !.nested = did.nested, !.generated = did.generated,
                              !.log = done.log]
             ELSE minimax_loop(possible_states, i + 1,
                               IF p = 0 THEN max(best, score) ELSE min(best, score),
                               depth, p, after, did)

----------------------------------------------------------------------------
(* Chopstick.find_best_state *)

\* best_state before its first assignment
Unbound == <<>>

RECURSIVE find_best_loop_last(_, _, _, _, _, _, _)

\* find_best_state comparing with >= and <=: the last of the best children
find_best_loop_last(possible_states, i, best_state, best_score, p, dict, done) ==
    IF i > Len(possible_states)
    THEN [value |-> best_state, best_score |-> best_score, dict |-> dict,
          scores |-> done.scores, nested |-> done.nested, generated |-> done.generated,
          raised |-> IF best_state = <<>> THEN "UnboundLocalError" ELSE "no"]
    ELSE LET possible_state == possible_states[i]
             rec    == minimax(possible_state, 0, 1 - p, dict)
             score  == rec.value
             better == IF p = 0 THEN score >= best_score ELSE score <= best_score
             did    == [scores    |-> Append(done.scores, score),
                        nested    |-> done.nested \cup rec.nested,
                        generated |-> done.generated + rec.generated]
         IN  IF rec.raised
             THEN [value |-> <<>>, best_score |-> best_score, dict |-> rec.dict,
                   scores |-> done.scores, nested |-> did.nested,
                   generated |-> did.generated, raised |-> "ValueError"]
             ELSE find_best_loop_last(possible_states, i + 1,
                                      IF better THEN possible_state ELSE best_state,
                                      IF better THEN score ELSE best_score,
                                      p, rec.dict, did)

RECURSIVE find_best_loop(_, _, _, _, _, _, _)

\* the for loop of find_best_state from its i-th possible state on;
\* done.scores lists the values of the local `score`, one per iteration
find_best_loop(possible_states, i, best_state, best_score, p, dict, done) ==
    IF i > Len(possible_states)
    THEN [value |-> best_state, best_score |-> best_score, dict |-> dict,
          scores |-> done.scores, nested |-> done.nested, generated |-> done.generated,
          raised |-> IF best_state = Unbound THEN "UnboundLocalError" ELSE "no"]
    ELSE LET possible_state == possible_states[i]
             rec    == minimax(possible_state, 0, 1 - p, dict)
             score  == rec.value
             better == IF p = 0 THEN score > best_score ELSE score < best_score
             did    == [scores    |-> Append(done.scores, score),
                        nested    |-> done.nested \cup rec.nested,
                        generated |-> done.generated + rec.generated]
         IN  IF rec.raised
             THEN [value |-> Unbound, best_score |-> best_score, dict |-> rec.dict,
                   scores |-> done.scores, nested |-> did.nested,
                   generated |-> did.generated, raised |-> "ValueError"]
             ELSE find_best_loop(possible_states, i + 1,
                                 IF better THEN possible_state ELSE best_state,
                                 IF better THEN score ELSE best_score,
                                 p, rec.dict, did)

find_best_state(s, p, dict) ==
    LET possible_states == get_available_states(s, p)
    IN  IF possible_states.raised
        THEN [value |-> Unbound, best_score |-> 0, dict |-> dict,
              scores |-> <<>>, nested |-> {}, generated |-> 1, raised |-> "ValueError"]
        ELSE find_best_loop(possible_states.value, 1, Unbound,
                            IF p = 0 THEN -1000 ELSE 1000, p, dict,
                            [scores |-> <<>>, nested |-> {}, generated |-> 1])

----------------------------------------------------------------------------
StartState == <<"1", "1", "|", "1", "1">>

EmptyDict == [p \in {0, 1} |-> <<>>]

NoCall == [op |-> "none"]

\* snapshots possible_state_dict.json may hold when the module is loaded (lines 10-13)
SampleDicts ==
    {EmptyDict,
     [p \in {0, 1} |-> IF p = 0 THEN (<<"1", "1", "|", "0", "0">> :> 99)
                       ELSE (<<"0", "0", "|", "1", "1">> :> -99)]}

----------------------------------------------------------------------------
(* The API called once on any input: specification SpecMoves *)

InitMoves ==
    /\ possible_state_dict \in SampleDicts
    /\ max_depth = 0
    /\ hashseed \in HashSeeds
    /\ state = StartState
    /\ player = 0
    /\ turns = 0
    /\ player_choice = 2
    /\ ret = NoCall
    /\ calls = <<>>

CallHit ==
    /\ ret = NoCall
    /\ \E a \in Fingers, b \in Fingers :
          ret' = [op |-> "hit", player_hand |-> a, opponent_hand |-> b,
                  value |-> hit(a, b)]
    /\ UNCHANGED <<possible_state_dict, max_depth, hashseed, state, player, turns,
                   player_choice, calls>>

CallStandardizeFormat ==
    /\ ret = NoCall
    /\ \E a \in Fingers, b \in Fingers :
          ret' = [op |-> "standardize_format", result |-> <<a, b>>,
                  value |-> standardize_format(<<a, b>>),
                  value_str |-> standardize_format_str(<<str(a), str(b)>>)]
    /\ UNCHANGED <<possible_state_dict, max_depth, hashseed, state, player, turns,
                   player_choice, calls>>

CallEvaluate ==
    /\ ret = NoCall
    /\ \E s \in Positions :
          ret' = [op |-> "evaluate", state |-> s, value |-> evaluate(s),
                  before |-> possible_state_dict]
    /\ UNCHANGED <<possible_state_dict, max_depth, hashseed, state, player, turns,
                   player_choice, calls>>

CallPossibleHits ==
    /\ ret = NoCall
    /\ \E s \in Positions, p \in {0, 1} :
          ret' = [op |-> "possible_hits", state |-> s, player |-> p,
                  value |-> possible_hits(s, p)]
    /\ UNCHANGED <<possible_state_dict, max_depth, hashseed, state, player, turns,
                   player_choice, calls>>

CallPossibleSplits ==
    /\ ret = NoCall
    /\ \E s \in Positions, p \in {0, 1} :
          ret' = [op |-> "possible_splits", state |-> s, player |-> p,
                  value |-> possible_splits(s, p)]
    /\ UNCHANGED <<possible_state_dict, max_depth, hashseed, state, player, turns,
                   player_choice, calls>>

CallGetAvailableStates ==
    /\ ret = NoCall
    /\ \E s \in Positions, p \in {0, 1} :
          \E r \in {get_available_states(s, p)} :
              ret' = [op |-> "get_available_states", state |-> s, player |-> p,
                      raised |-> r.raised, value |-> r.value,
                      before |-> possible_state_dict]
    /\ UNCHANGED <<possible_state_dict, max_depth, hashseed, state, player, turns,
                   player_choice, calls>>

NextMoves ==
    \/ CallHit
    \/ CallStandardizeFormat
    \/ CallEvaluate
    \/ CallPossibleHits
    \/ CallPossibleSplits
    \/ CallGetAvailableStates

SpecMoves == InitMoves /\ [][NextMoves]_vars

----------------------------------------------------------------------------
(* The game graph of get_available_states from "11|11": specification SpecGame *)

InitGame ==
    /\ possible_state_dict = EmptyDict
    /\ max_depth = 0
    /\ hashseed \in HashSeeds
    /\ state = StartState
    /\ player = 0
    /\ turns = 0
    /\ player_choice = 2
    /\ ret = NoCall
    /\ calls = <<>>

\* the player to move takes one of the hit results of get_available_states
GameHit ==
    /\ \E r \in {get_available_states(state, player)} :
          /\ ~r.raised
          /\ \E i \in 1..Len(possible_hits(state, player)) :
                state' = r.value[i]
    /\ player' = 1 - player
    /\ ret' = [op |-> "move", kind |-> "hit", state |-> state, player |-> player]
    /\ UNCHANGED <<possible_state_dict, max_depth, hashseed, turns, player_choice, calls>>

\* the player to move takes one of the split results of get_available_states
GameSplit ==
    /\ \E r \in {get_available_states(state, player)} :
          /\ ~r.raised
          /\ \E i \in (Len(possible_hits(state, player)) + 1)..Len(r.value) :
                state' = r.value[i]
    /\ player' = 1 - player
    /\ ret' = [op |-> "move", kind |-> "split", state |-> state, player |-> player]
    /\ UNCHANGED <<possible_state_dict, max_depth, hashseed, turns, player_choice, calls>>

NextGame == GameHit \/ GameSplit

SpecGame == InitGame /\ [][NextGame]_vars

----------------------------------------------------------------------------
(* Searches on the positions near "11|11", the dictionary empty at first:   *)
(* specification Spec                                                       *)

Init ==
    /\ possible_state_dict = EmptyDict
    /\ max_depth \in 0..MaxDepth
    /\ hashseed \in HashSeeds
    /\ state = StartState
    /\ player = 0
    /\ turns = 0
    /\ player_choice = 2
    /\ ret = NoCall
    /\ calls = <<>>

\* a legal move is played before any search: play_AI lines 234-237
Move ==
    /\ calls = <<>>
    /\ turns < MaxPly
    /\ \E r \in {get_available_states(state, player)} :
          /\ ~r.raised
          /\ \E i \in 1..Len(r.value) : state' = r.value[i]
    /\ player' = 1 - player
    /\ turns' = turns + 1
    /\ UNCHANGED <<possible_state_dict, max_depth, hashseed, player_choice, ret, calls>>

\* find_best_state(state, player), the position left as it is
CallFindBestState ==
    /\ Len(calls) < MaxCalls
    /\ \E r \in {find_best_state(state, player, possible_state_dict)} :
          /\ possible_state_dict' = r.dict
          /\ ret' = [op |-> "find_best_state", state |-> state, player |-> player,
                     value |-> r.value, best_score |-> r.best_score,
                     scores |-> r.scores, raised |-> r.raised,
                     nested |-> r.nested, generated |-> r.generated,
                     before |-> possible_state_dict]
          /\ calls' = Append(calls, [op |-> "find_best_state", value |-> r.value,
                                     raised |-> r.raised, depth |-> 0])
    /\ UNCHANGED <<max_depth, hashseed, state, player, turns, player_choice>>

\* minimax(state, depth, player) called directly, before any other search
CallMinimax ==
    /\ calls = <<>>
    /\ Len(calls) < MaxCalls
    /\ \E depth \in 0..(max_depth + 1) :
          \E r \in {minimax(state, depth, player, possible_state_dict)} :
              /\ possible_state_dict' = r.dict
              /\ ret' = [op |-> "minimax", state |-> state, player |-> player,
                         depth |-> depth, value |-> r.value, raised |-> r.raised,
                         nested |-> r.nested, generated |-> r.generated,
                         log |-> r.log, before |-> possible_state_dict]
              /\ calls' = Append(calls, [op |-> "minimax", value |-> r.value,
                                         raised |-> r.raised, depth |-> depth])
    /\ UNCHANGED <<max_depth, hashseed, state, player, turns, player_choice>>

Next == Move \/ CallFindBestState \/ CallMinimax

Spec == Init /\ [][Next]_vars

----------------------------------------------------------------------------
(* minimax called again on the dictionary its earlier calls left:           *)
(* specification SpecCache                                                  *)

\* minimax(state, depth, player) called once more with the same arguments
CallMinimaxAgain ==
    /\ calls # <<>>
    /\ Len(calls) < MaxCalls
    /\ \A i \in 1..Len(calls) : calls[i].op = "minimax" /\ ~calls[i].raised
    /\ \E r \in {minimax(state, calls[1].depth, player, possible_state_dict)} :
          /\ possible_state_dict' = r.dict
          /\ ret' = [op |-> "minimax", state |-> state, player |-> player,
                     depth |-> calls[1].depth, value |-> r.value, raised |-> r.raised,
                     nested |-> r.nested, generated |-> r.generated,
                     log |-> r.log, before |-> possible_state_dict]
          /\ calls' = Append(calls, [op |-> "minimax", value |-> r.value,
                                     raised |-> r.raised, depth |-> calls[1].depth])
    /\ UNCHANGED <<max_depth, hashseed, state, player, turns, player_choice>>

NextCache == Move \/ CallMinimax \/ CallMinimaxAgain

SpecCache == Init /\ [][NextCache]_vars

----------------------------------------------------------------------------
(* One find_best_state call on any position of the game, for either player: *)
(* specification SpecReach                                                  *)

\* a legal move is played, any number of them, before the search
Walk ==
    /\ calls = <<>>
    /\ \E r \in {get_available_states(state, player)} :
          /\ ~r.raised
          /\ \E i \in 1..Len(r.value) : state' = r.value[i]
    /\ player' = 1 - player
    /\ UNCHANGED <<possible_state_dict, max_depth, hashseed, turns, player_choice,
                   ret, calls>>

\* find_best_state(state, p) for either p
CallFindBestStateFor ==
    /\ calls = <<>>
    /\ \E p \in {0, 1} :
          \E r \in {find_best_state(state, p, possible_state_dict)} :
              /\ possible_state_dict' = r.dict
              /\ ret' = [op |-> "find_best_state", state |-> state, player |-> p,
                         value |-> r.value, best_score |-> r.best_score,
                         scores |-> r.scores, raised |-> r.raised,
                         nested |-> r.nested, generated |-> r.generated,
                         before |-> possible_state_dict]
              /\ calls' = Append(calls, [op |-> "find_best_state", value |-> r.value,
                                         raised |-> r.raised, depth |-> 0])
    /\ UNCHANGED <<max_depth, hashseed, state, player, turns, player_choice>>

NextReach == Walk \/ CallFindBestStateFor

SpecReach == Init /\ [][NextReach]_vars

----------------------------------------------------------------------------
(* spectate_AI and play_AI with a search deep enough to resolve "11|11":    *)
(* specification SpecPlay                                                   *)

InitPlay ==
    /\ possible_state_dict = EmptyDict
    /\ max_depth = SolveDepth
    /\ hashseed \in HashSeeds
    /\ state = StartState
    /\ player = 0
    /\ turns = 0
    /\ player_choice \in {0, 1, 2}
    /\ ret = NoCall
    /\ calls = <<>>

\* spectate_AI line 210, play_AI lines 232-233
AITurn ==
    /\ turns < MaxTurns
    /\ player # player_choice
    /\ evaluate(state) = 0
    /\ \E r \in {find_best_state(state, player, possible_state_dict)} :
          /\ r.raised = "no"
          /\ possible_state_dict' = r.dict
          /\ state' = r.value
          /\ ret' = [op |-> "find_best_state", state |-> state, player |-> player,
                     value |-> r.value, best_score |-> r.best_score,
                     scores |-> r.scores, raised |-> r.raised,
                     nested |-> r.nested, generated |-> r.generated,
                     before |-> possible_state_dict]
    /\ player' = 1 - player
    /\ turns' = turns + 1
    /\ UNCHANGED <<max_depth, hashseed, player_choice, calls>>

\* play_AI lines 234-236: the human enters a legal move
HumanTurn ==
    /\ turns < MaxTurns
    /\ player = player_choice
    /\ evaluate(state) = 0
    /\ \E r \in {get_available_states(state, player)} :
          /\ ~r.raised
          /\ \E i \in 1..Len(r.value) : state' = r.value[i]
    /\ ret' = [op |-> "input", state |-> state, player |-> player]
    /\ player' = 1 - player
    /\ turns' = turns + 1
    /\ UNCHANGED <<possible_state_dict, max_depth, hashseed, player_choice, calls>>

NextPlay == AITurn \/ HumanTurn

SpecPlay == InitPlay /\ [][NextPlay]_vars

----------------------------------------------------------------------------
(* The game graph and its forced wins *)

\* the set of positions get_available_states(s, p) lists, whatever the order
Successors(s, p) ==
    Range(hits_added(s, p)) \cup (Range(splits_added(s, p)) \ {s})

Canonical(hand) == int(hand[1]) <= int(hand[2])

CanonicalPositions ==
    {s \in Positions : Canonical(split(s)[1]) /\ Canonical(split(s)[2])}

Nodes == CanonicalPositions \X {0, 1}

\* the nodes one move after each node
Children ==
    [n \in Nodes |-> IF evaluate(n[1]) # 0 THEN {}
                     ELSE {<<c, 1 - n[2]>> : c \in Successors(n[1], n[2])}]

\* one round of backward induction for the player `winner`: a node is won
\* when the other player is dead, when the winner moves and some move is
\* won, or when the other player moves and every move is won
WinStep(winner, W) ==
    {n \in Nodes :
        \/ evaluate(n[1]) = (IF winner = 0 THEN 100 ELSE -100)
        \/ /\ evaluate(n[1]) = 0
           /\ n[2] = winner
           /\ \E c \in Children[n] : c \in W
        \/ /\ evaluate(n[1]) = 0
           /\ n[2] # winner
           /\ Children[n] # {}
           /\ \A c \in Children[n] : c \in W}

RECURSIVE WinFix(_, _)
WinFix(winner, W) ==
    LET W2 == WinStep(winner, W)
    IN  IF W2 = W THEN W ELSE WinFix(winner, W2)

\* the nodes <<position, player to move>> from which `winner` can force a win
Wins(winner) == WinFix(winner, {})

\* the two sets, computed once
Player0Wins == Wins(0)

Player1Wins == Wins(1)

----------------------------------------------------------------------------
(* Claims *)

\* the last call was find_best_state("11|11", 0) on an empty dictionary
SolvedFromStart ==
    /\ ret.op = "find_best_state"
    /\ ret.state = StartState
    /\ ret.player = 0
    /\ ret.before = EmptyDict
    /\ max_depth >= SolveDepth

OnlyFindBestState ==
    \A i \in 1..Len(calls) :
        calls[i].op = "find_best_state" /\ calls[i].raised = "no"

C3_FirstExtremalChild ==
    (ret.op = "find_best_state" /\ evaluate(ret.state) = 0) =>
        LET children == get_available_states(ret.state, ret.player).value
            scores   == ret.scores
            extremal(i) ==
                \A j \in 1..Len(scores) :
                    IF ret.player = 0 THEN scores[j] <= scores[i]
                    ELSE scores[j] >= scores[i]
        IN  /\ ret.raised = "no"
            /\ ret.value \in Range(children)
            /\ Len(scores) = Len(children)
            /\ scores[1] = minimax(children[1], 0, 1 - ret.player, ret.before).value
            /\ \E i \in 1..Len(children) :
                  /\ ret.value = children[i]
                  /\ extremal(i)
                  /\ \A j \in 1..(i - 1) : ~extremal(j)

C3_Witness ==
    /\ ret.op = "find_best_state"
    /\ ret.raised = "no"
    /\ ret.player = 1
    /\ Len(ret.scores) >= 3
    /\ ret.value # get_available_states(ret.state, ret.player).value[1]
    /\ \E i \in 1..Len(ret.scores), j \in 1..Len(ret.scores) :
          i # j /\ ret.scores[i] = ret.best_score /\ ret.scores[j] = ret.best_score

\* either hand of the position is "00", whatever the order of its digits
SomeHandDead(s) ==
    LET states == split(s)
    IN  \/ states[1] = <<"0", "0">>
        \/ states[2] = <<"0", "0">>

\* C4: get_available_states raises the ValueError exactly on the positions
\* with a "00" hand (evaluate non-zero), for both players, returns no list
\* then, and leaves the dictionary as it was.
C4_RaisesOnTerminal ==
    ret.op = "get_available_states" =>
        /\ ret.raised <=> SomeHandDead(ret.state)
        /\ ret.raised <=> (evaluate(ret.state) # 0)
        /\ ret.raised => ret.value = <<>>
        /\ possible_state_dict = ret.before

C4_Witness ==
    /\ ret.op = "get_available_states"
    /\ ret.raised
    /\ ret.state = <<"1", "1", "|", "0", "0">>
    /\ ret.player = 1
    /\ possible_state_dict # EmptyDict

\* C5: from an empty dictionary, every value minimax returns on a position
\* reachable from "11|11" is in [-100, 100], never -1000 or 1000, and every
\* value stored in the dictionary is in [-99, 99].
C5_ScoresBounded ==
    /\ ret.op = "minimax" => ret.value \in -100..100
    /\ ret.op = "find_best_state" =>
          \A i \in 1..Len(ret.scores) : ret.scores[i] \in -100..100
    /\ \A p \in {0, 1} : \A k \in DOMAIN possible_state_dict[p] :
          possible_state_dict[p][k] \in -99..99

C5_Witness ==
    /\ ret.op = "minimax"
    /\ ret.depth = 0
    /\ ret.value \notin {0, 100, -100}
    /\ \E k \in DOMAIN possible_state_dict[0] : possible_state_dict[0][k] = 99
    /\ \E k \in DOMAIN possible_state_dict[1] : possible_state_dict[1][k] = -99

\* evaluate with its two checks in the other order
evaluate_swapped(s) ==
    LET states == split(s)
    IN  IF states[2] = <<"0", "0">> THEN 100
        ELSE IF states[1] = <<"0", "0">> THEN -100
        ELSE 0

\* C6: no position reachable from "11|11" by legal moves has both hands
\* "00", so the order of evaluate's two checks does not matter.
C6_NeverBothDead ==
    /\ ~(split(state)[1] = <<"0", "0">> /\ split(state)[2] = <<"0", "0">>)
    /\ evaluate(state) = evaluate_swapped(state)

C6_Witness ==
    /\ ret.op = "move"
    /\ ret.kind = "hit"
    /\ evaluate(state) = 100
    /\ split(state)[1] # <<"0", "0">>

\* C7: the list get_available_states returns holds no position twice: no
\* hit result equals a split result and neither part repeats a position.
C7_NoDuplicates ==
    (ret.op = "get_available_states" /\ ~ret.raised) =>
        \A i \in 1..Len(ret.value), j \in 1..Len(ret.value) :
            i # j => ret.value[i] # ret.value[j]

C7_Witness ==
    /\ ret.op = "get_available_states"
    /\ ~ret.raised
    /\ ret.state = StartState
    /\ Len(ret.value) = 2

\* C8: on a canonical hand (left, right) possible_splits returns exactly the
\* positions whose acting hand is a canonical pair of values in [0,4] with
\* the sum left + right, other than (left, right) itself.
C8_SplitsExact ==
    (ret.op = "possible_splits" /\ Canonical(split(ret.state)[ret.player + 1])) =>
        LET states == split(ret.state)
            hand   == states[ret.player + 1]
            left   == int(hand[1])
            right  == int(hand[2])
            pairs  == {x \in Fingers \X Fingers :
                          /\ x[1] <= x[2]
                          /\ x[1] + x[2] = left + right
                          /\ x # <<left, right>>}
            expected == {join([states EXCEPT ![ret.player + 1] = <<str(x[1]), str(x[2])>>]) :
                            x \in pairs}
        IN  /\ Range(ret.value) = expected
            /\ Len(ret.value) = Cardinality(expected)
            /\ ret.state \notin Range(ret.value)

C8_Witness ==
    /\ ret.op = "possible_splits"
    /\ ret.state = <<"1", "3", "|", "2", "4">>
    /\ ret.player = 0
    /\ Len(ret.value) = 2

\* C9: for a, b in [1,4], hit(a, b) is 0 when a + b >= 5 and a + b
\* otherwise, so it is in [0,4] and differs from b.
C9_HitResult ==
    (ret.op = "hit" /\ ret.player_hand \in 1..4 /\ ret.opponent_hand \in 1..4) =>
        /\ ret.value = IF ret.player_hand + ret.opponent_hand >= 5 THEN 0
                       ELSE ret.player_hand + ret.opponent_hand
        /\ ret.value \in 0..4
        /\ ret.value # ret.opponent_hand

C9_Witness ==
    /\ ret.op = "hit"
    /\ ret.player_hand = 1
    /\ ret.opponent_hand = 4
    /\ ret.value = 0

\* C10: every position reachable from "11|11" by legal moves is two
\* two-digit hands around one separator, every digit in [0,4] and each
\* hand's digits in ascending order.
C10_WellFormedCanonical ==
    /\ Len(state) = 5
    /\ state[3] = "|"
    /\ \A i \in {1, 2, 4, 5} : state[i] \in {"0", "1", "2", "3", "4"}
    /\ int(state[1]) <= int(state[2])
    /\ int(state[4]) <= int(state[5])

C10_Witness ==
    /\ ret.op = "move"
    /\ ret.kind = "hit"
    /\ ret.state = <<"1", "2", "|", "3", "3">>
    /\ ret.player = 0
    /\ state = <<"1", "2", "|", "0", "3">>

\* C11: evaluate(position) is -100 exactly when the first two characters of
\* the position are "00", 100 exactly when they are not and the last two
\* are "00", and 0 otherwise; the dictionary is left as it was.
C11_EvaluateTable ==
    ret.op = "evaluate" =>
        LET dead0 == ret.state[1] = "0" /\ ret.state[2] = "0"
            dead1 == ret.state[4] = "0" /\ ret.state[5] = "0"
        IN  /\ (ret.value = -100) <=> dead0
            /\ (ret.value = 100) <=> (~dead0 /\ dead1)
            /\ (ret.value = 0) <=> (~dead0 /\ ~dead1)
            /\ ret.value \in {-100, 0, 100}
            /\ possible_state_dict = ret.before

C11_Witness ==
    /\ ret.op = "evaluate"
    /\ ret.state = <<"0", "0", "|", "0", "0">>
    /\ ret.value = -100
    /\ possible_state_dict # EmptyDict

\* C12: from "11|11" with player 0 to move possible_hits returns the one
\* position "11|12", possible_splits the one position "02|11", and
\* get_available_states these two and nothing else, "11|11" not among them.
C12_MovesFromStart ==
    (ret.op \in {"possible_hits", "possible_splits", "get_available_states"}
        /\ ret.state = StartState /\ ret.player = 0) =>
        /\ ret.op = "possible_hits" => ret.value = << <<"1", "1", "|", "1", "2">> >>
        /\ ret.op = "possible_splits" => ret.value = << <<"0", "2", "|", "1", "1">> >>
        /\ ret.op = "get_available_states" =>
              /\ ~ret.raised
              /\ ret.value = << <<"1", "1", "|", "1", "2">>, <<"0", "2", "|", "1", "1">> >>
        /\ StartState \notin Range(ret.value)

C12_Witness ==
    /\ ret.op = "get_available_states"
    /\ ret.state = StartState
    /\ ret.player = 0
    /\ ret.value[1] = <<"1", "1", "|", "1", "2">>
    /\ ret.value[2] = <<"0", "2", "|", "1", "1">>

\* the positions obtained from s by exchanging the digits of either hand
HandSwaps(s) ==
    {s,
     <<s[2], s[1], "|", s[4], s[5]>>,
     <<s[1], s[2], "|", s[5], s[4]>>,
     <<s[2], s[1], "|", s[5], s[4]>>}

\* C13: standardize_format is idempotent and independent of the order of
\* the two fingers over the hands with digits in [0,4], and
\* get_available_states gives one result for a position and for every
\* exchange of the two digits of either of its hands.
C13_CanonicalizationStable ==
    /\ ret.op = "standardize_format" =>
          /\ standardize_format_str(ret.value) = ret.value
          /\ standardize_format_str(ret.value_str) = ret.value_str
          /\ standardize_format(<<int(ret.value[1]), int(ret.value[2])>>) = ret.value
          /\ standardize_format(<<ret.result[2], ret.result[1]>>) = ret.value
          /\ standardize_format_str(<<str(ret.result[2]), str(ret.result[1])>>) = ret.value_str
          /\ ret.value_str = ret.value
    /\ ret.op = "get_available_states" =>
          \A s2 \in HandSwaps(ret.state) :
              \E r \in {get_available_states(s2, ret.player)} :
                  r.raised = ret.raised /\ r.value = ret.value

C13_Witness ==
    /\ ret.op = "get_available_states"
    /\ ret.state = <<"2", "1", "|", "4", "3">>
    /\ ~ret.raised
    /\ ret.value = get_available_states(<<"1", "2", "|", "3", "4">>, ret.player).value
    /\ Len(ret.value) >= 3

\* C14: in every minimax call, and in the minimax calls of every
\* find_best_state call, each recursive call is made with the caller's depth
\* plus 1 and with a depth of at most max_depth + 1, so the nesting is
\* bounded whatever cycles the game graph has; and a call with
\* depth > max_depth on a non-terminal position returns 0 with no call of
\* get_available_states, no recursive call and the dictionary as it was.
C14_DepthBounded ==
    ret.op \in {"minimax", "find_best_state"} =>
        /\ \A c \in ret.nested :
              /\ c[2] = c[1] + 1
              /\ c[1] >= (IF ret.op = "minimax" THEN ret.depth ELSE 0)
              /\ c[2] <= max_depth + 1
        /\ (ret.op = "minimax" /\ ret.depth > max_depth /\ evaluate(ret.state) = 0) =>
              /\ ret.value = 0
              /\ ~ret.raised
              /\ ret.generated = 0
              /\ ret.nested = {}
              /\ ret.log = <<>>
              /\ possible_state_dict = ret.before

C14_Witness ==
    /\ ret.op = "minimax"
    /\ ret.depth = 0
    /\ max_depth >= 2
    /\ ret.nested = {<<d, d + 1>> : d \in 0..max_depth}
    /\ ret.generated > max_depth + 1
    /\ Len(ret.log) >= 2

\* C15: in minimax(position, depth, toMove) the for loop visits the
\* children in the order of get_available_states; a child whose entry in
\* the mover's mapping exists with an absolute value above 50 gets that
\* value as its score with no recursive call and the entry keeps its value;
\* any other child is scored by a recursive call and its entry in the
\* mover's mapping is overwritten with the score used; the store of that
\* level leaves the other mapping as it is, and the value returned is the
\* greatest (toMove = 0) or least (toMove = 1) of the scores used.
C15_ReuseOrRecurse ==
    (ret.op = "minimax" /\ ~ret.raised /\ evaluate(ret.state) = 0
        /\ ret.depth <= max_depth) =>
        LET children == get_available_states(ret.state, ret.player).value
        IN  /\ Len(ret.log) = Len(children)
            /\ \A i \in 1..Len(ret.log) :
                  LET e == ret.log[i]
                  IN  /\ e.state = children[i]
                      /\ e.other
                      /\ IF e.prior # <<>> /\ abs(e.prior[1]) > 50
                         THEN ~e.recursed /\ e.result = <<>>
                              /\ e.score = e.prior[1] /\ e.stored = e.prior
                         ELSE e.recursed /\ e.result # <<>>
                              /\ e.stored = <<e.score>>
                      /\ IF ret.player = 0 THEN e.score <= ret.value
                         ELSE e.score >= ret.value
            /\ \E i \in 1..Len(ret.log) : ret.log[i].score = ret.value
            /\ ret.depth = max_depth =>
                  /\ possible_state_dict[1 - ret.player] = ret.before[1 - ret.player]
                  /\ DOMAIN possible_state_dict[ret.player]
                        = DOMAIN ret.before[ret.player] \cup Range(children)

C15_Witness ==
    /\ ret.op = "minimax"
    /\ ~ret.raised
    /\ \E i \in 1..Len(ret.log), j \in 1..Len(ret.log) :
          /\ ~ret.log[i].recursed
          /\ abs(ret.log[i].prior[1]) > 50
          /\ ret.log[j].recursed

SortedCounts(hand) ==
    IF int(hand[1]) <= int(hand[2]) THEN <<int(hand[1]), int(hand[2])>>
    ELSE <<int(hand[2]), int(hand[1])>>

\* C17: every position possible_hits(position, p) returns has the hand of
\* p as in the input and the opponent's hand with exactly one non-zero
\* finger count x replaced by another value, (a + x) or 0 from 5 on, for a
\* non-zero finger count a of p; every position possible_splits(position, p)
\* returns has the opponent's hand as in the input.
C17_MoveFrames ==
    /\ ret.op = "possible_hits" =>
          LET before   == split(ret.state)
              own      == before[ret.player + 1]
              opponent == before[2 - ret.player]
          IN  \A i \in 1..Len(ret.value) :
                  LET after == split(ret.value[i])
                  IN  /\ Len(after) = 2
                      /\ after[ret.player + 1] = own
                      /\ ret.value[i] # ret.state
                      /\ \E k \in {1, 2}, a \in {int(own[1]), int(own[2])} :
                            LET x == int(opponent[k])
                                y == int(opponent[3 - k])
                                z == IF a + x >= 5 THEN 0 ELSE a + x
                            IN  /\ a # 0
                                /\ x # 0
                                /\ z # x
                                /\ SortedCounts(after[2 - ret.player])
                                      = (IF z <= y THEN <<z, y>> ELSE <<y, z>>)
    /\ ret.op = "possible_splits" =>
          \A i \in 1..Len(ret.value) :
              /\ Len(split(ret.value[i])) = 2
              /\ split(ret.value[i])[2 - ret.player] = split(ret.state)[2 - ret.player]

C17_Witness ==
    /\ ret.op = "possible_hits"
    /\ ret.state = <<"0", "2", "|", "1", "3">>
    /\ ret.player = 0
    /\ Range(ret.value) = {<<"0", "2", "|", "3", "3">>, <<"0", "2", "|", "0", "1">>}

\* get_available_states lists at least one position wherever it does not
\* raise, for every position with digits in [0,4] and either player
NoStalemate ==
    \A seed \in HashSeeds : \A s \in Positions : \A p \in {0, 1} :
        \/ available_states[seed][s][p].raised
        \/ /\ Len(available_states[seed][s][p].value) >= 1
           /\ hits_added(s, p) # <<>>

\* C18: get_available_states returns at least one position for every
\* non-terminal position with digits in [0,4] and either player; so on
\* every non-terminal position of the game find_best_state assigns
\* best_state, one of the listed positions, before returning it, and no
\* score it gets from minimax is the initial 1000 or -1000 of `best`.
C18_NoStalemate ==
    /\ NoStalemate
    /\ (ret.op = "find_best_state" /\ evaluate(ret.state) = 0) =>
          /\ ret.raised # "UnboundLocalError"
          /\ ret.value # Unbound
          /\ ret.value \in Successors(ret.state, ret.player)
          /\ Len(ret.scores) >= 1
          /\ ret.best_score \notin {1000, -1000}
          /\ \A i \in 1..Len(ret.scores) : abs(ret.scores[i]) <= 100

C18_Witness ==
    /\ ret.op = "find_best_state"
    /\ ret.raised = "no"
    /\ Len(ret.scores) = 1
    /\ ret.value = get_available_states(ret.state, ret.player).value[1]
    /\ ret.player # player

\* the sign of every stored score is sound: a positive score under mover p
\* stands on a position player 0 wins by force with 1 - p to move, a
\* negative one on a position player 1 wins by force
SignsSound(dict) ==
    \A p \in {0, 1} : \A s \in DOMAIN dict[p] :
        /\ dict[p][s] > 0 => <<s, 1 - p>> \in Player0Wins
        /\ dict[p][s] < 0 => <<s, 1 - p>> \in Player1Wins

\* C19: from an empty dictionary, after any sequence of find_best_state
\* calls and moves of a game from "11|11", the sign of every stored score is
\* sound, whatever the depths at which the entries were computed and reused.
C19_CacheSignsSound ==
    /\ SignsSound(possible_state_dict)
    /\ ret.op = "find_best_state" => SignsSound(ret.before)

C19_Witness ==
    /\ ret.op = "find_best_state"
    /\ turns >= 2
    /\ player_choice = 2
    /\ ret.before # EmptyDict
    /\ ret.before # possible_state_dict
    /\ \E p \in {0, 1} : \E s \in DOMAIN possible_state_dict[p] :
          possible_state_dict[p][s] \in 51..98
    /\ \E p \in {0, 1} : \E s \in DOMAIN possible_state_dict[p] :
          possible_state_dict[p][s] \in -98..-51
    /\ \E p \in {0, 1} : \E s \in DOMAIN possible_state_dict[p] :
          possible_state_dict[p][s] = 0

\* C20: on every non-terminal position of the game and for either player
\* find_best_state returns without the ValueError of get_available_states:
\* minimax returns the score of a terminal child before it would list the
\* child's moves.
C20_NoInvalidState ==
    (ret.op = "find_best_state" /\ evaluate(ret.state) = 0) =>
        /\ ret.raised = "no"
        /\ ret.generated >= 1

C20_Witness ==
    /\ ret.op = "find_best_state"
    /\ evaluate(ret.state) = 0
    /\ ret.raised = "no"
    /\ max_depth >= 1
    /\ ret.generated > 1
    /\ \E i \in 1..Len(ret.scores) : abs(ret.scores[i]) = 100
    /\ \E i \in 1..Len(ret.scores) : abs(ret.scores[i]) < 100

====
